---- MODULE Spec2Model ----
(***************************************************************************)
(* TrueSight ML detection service (src/ml-service/main.py): the temporal   *)
(* debounce engine of /detect-humans.  The module-level dictionaries       *)
(* frame_history and alert_sent are the state; update_detection_history,   *)
(* analyze_malpractice and the detect_humans handler are the operations.   *)
(* The overlay detector of /detect-overlays (overlay_detection.py): its    *)
(* calibrated threshold and demo-sequence fields are the state;            *)
(* detect_overlay and the detect_overlays handler are the operations.      *)
(* The calibrator (overlay_calibration.py): its sample lists and the       *)
(* calibration file are the state; add_normal_sample, add_cheat_sample,    *)
(* analyze_samples, save_calibration, load_calibration and                 *)
(* calibrate_from_files are the operations.                                *)
(***************************************************************************)
EXTENDS Integers, Sequences, FiniteSets, TLC

(***************************************************************************)
(* Program constants (main.py:29-32).                                      *)
(***************************************************************************)
HUMAN_HISTORY_LENGTH == 4
PHONE_HISTORY_LENGTH == 2
HUMAN_MALPRACTICE_THRESHOLD == 1
PHONE_MALPRACTICE_THRESHOLD == 1

(***************************************************************************)
(* Bounds of the model.                                                    *)
(***************************************************************************)
\* longest run of consecutive true outcomes fed to one condition of one room
MaxStreak == 5
\* frames analysed by the service in one behaviour of Spec
MaxFrames == 5
\* calls recorded in the per-room logs in one behaviour of SpecLog
MaxLog == 5
\* alerts of one condition of one room that are counted (the count saturates)
MaxCounted == 2

Rooms == {"A", "B"}
\* detection counts of one frame: below, at and above the thresholds
Counts == {0, 1, 2}
ReqIds == {1, 2}

\* what a request's payload turns out to be when the handler works on it
Frames == {"invalid_base64", "undecodable", "preprocess_error",
           "inference_error", "postprocess_error", "ok"}

NoReq == "none"
NoCall == [room |-> "none",
           new_human_malpractice |-> FALSE, new_phone_malpractice |-> FALSE,
           alerts |-> <<>>, malpractice_detected |-> FALSE]
NoArgs == [human_count |-> 0, phone_count |-> 0]
NoResponse == [room |-> "none", status |-> 0, alerts |-> <<>>,
               malpractice_detected |-> FALSE]

VARIABLES
    session,        \* main.py:22   TRUE iff the DETR session is loaded
    frame_history,  \* main.py:27   room -> [humans, phones] windows
    alert_sent,     \* main.py:28   room -> [human_alert_sent, phone_alert_sent]
    inflight,       \* requests accepted by the server and not yet handled
    response,       \* the response sent by the last step, if it sent one
    last_call,      \* room and results of the analysis made by the last step
    call_args,      \* the counts passed to the last logged call
    handled,        \* number of frames analysed so far
    streak,         \* room -> consecutive true outcomes since the last false
    since_alert,    \* room -> an alert was returned and no false outcome since
    alerts_returned,\* room -> number of alerts returned, up to MaxCounted
    overlap,        \* request -> while it was in flight an alert was returned to
                    \* another request of its room, and no false outcome since
    outcomes,       \* room -> log of the outcome pairs pushed, in arrival order
    alerts_log,     \* room -> log of the alert lists returned, in arrival order
    calibration_file,       \* overlay_calibration_data.json as it is on disk
    overlay_detector,       \* main.py:23  TRUE iff the detector is constructed
    calibrated_threshold,   \* overlay_detection.py:43  <<>> is None
    demo_sequence_active,   \* overlay_detection.py:48
    demo_alerts_sent,       \* overlay_detection.py:49
    last_demo_time,         \* overlay_detection.py:50
    clock,                  \* time.time() and datetime.now(), in seconds
    overlay_response,       \* the last /detect-overlays request and its answer
    request_frame,          \* the payload of the last /detect-humans request
    region_call,            \* the last call of detect_screen_region
    normal_samples,         \* overlay_calibration.py:16
    cheat_samples,          \* overlay_calibration.py:17
    calibration_outcome,    \* the last call of calibrate_from_files
    loaded,                 \* what the last load_calibration gave back
    saved,                  \* what the last save_calibration was given
    fresh,                  \* the objects constructed since the last save
    overlay_alerts          \* 'overlay_detected' results since the last trigger

vars == <<session, frame_history, alert_sent, inflight, response, last_call,
          call_args, handled, streak, since_alert, alerts_returned, overlap,
          outcomes, alerts_log, calibration_file, overlay_detector,
          calibrated_threshold, demo_sequence_active, demo_alerts_sent,
          last_demo_time, clock, overlay_response, request_frame,
          region_call, normal_samples, cheat_samples, calibration_outcome,
          loaded, saved, fresh, overlay_alerts>>

\* the debounce engine, its endpoint and its observers
detectionVars == <<session, frame_history, alert_sent, inflight, response,
                   last_call, call_args, handled, streak, since_alert,
                   alerts_returned, overlap, outcomes, alerts_log>>

\* the overlay detector, its calibration file and its endpoint
overlayVars == <<calibration_file, overlay_detector, calibrated_threshold,
                 demo_sequence_active, demo_alerts_sent, last_demo_time,
                 clock, overlay_response>>

\* the calibrator, the screen-region helper and the observers of requests
toolVars == <<request_frame, region_call, normal_samples, cheat_samples,
              calibration_outcome, loaded, saved, fresh, overlay_alerts>>

(***************************************************************************)
(* Python list helpers.                                                    *)
(***************************************************************************)
\* s[-n:]
LastN(s, n) == IF Len(s) <= n THEN s ELSE SubSeq(s, Len(s) - n + 1, Len(s))

\* all(s)
All(s) == \A i \in 1..Len(s) : s[i]

(***************************************************************************)
(* update_detection_history (main.py:433-497).                             *)
(***************************************************************************)
EmptyHistory == [humans |-> <<>>, phones |-> <<>>]
NoAlertSent == [human_alert_sent |-> FALSE, phone_alert_sent |-> FALSE]

\* main.py:438-442   frame_history[room], created on the room's first frame
HistoryOf(fh, room) == IF room \in DOMAIN fh THEN fh[room] ELSE EmptyHistory

\* main.py:444-448   alert_sent[room], created on the room's first frame
SentOf(sent, room) == IF room \in DOMAIN sent THEN sent[room] ELSE NoAlertSent

\* bug: every room's entry is one shared object
SetEntry_aliased(d, k, v) == [x \in (DOMAIN d) \cup {k} |-> v]

\* d[k] = v on a dictionary
SetEntry(d, k, v) == [x \in (DOMAIN d) \cup {k} |-> IF x = k THEN v ELSE d[x]]

\* bug: count > THRESHOLD
Outcome_strict(count, threshold) == count > threshold

\* main.py:451-452   count >= THRESHOLD
Outcome(count, threshold) == count >= threshold

\* bug: the history is never cut
Trim_never(hist, length) == hist

\* bug: hist[:LENGTH], the oldest frames are kept
Trim_keeps_oldest(hist, length) ==
    IF Len(hist) > length THEN SubSeq(hist, 1, length) ELSE hist

\* main.py:455-459   keep only the recent frames
Trim(hist, length) == IF Len(hist) > length THEN LastN(hist, length) ELSE hist

\* bug: all(hist[-LENGTH:]) without the length test
MalpracticeActive_no_length_test(hist, length) == All(LastN(hist, length))

\* main.py:462-471   len(hist) >= LENGTH and all(hist[-LENGTH:])
MalpracticeActive(hist, length) ==
    Len(hist) >= length /\ All(LastN(hist, length))

\* bug: the alert already sent is not consulted
NewMalpractice_ignores_sent(active, sent) == active

\* main.py:474-475   active and not alert_sent
NewMalpractice(active, sent) == active /\ ~sent

\* bug: the status is never reset
AlertStatus_never_reset(active, new, sent) == IF new THEN TRUE ELSE sent

\* bug: the status is never set
AlertStatus_never_set(active, new, sent) == IF ~active THEN FALSE ELSE sent

\* main.py:478-491   set on a new detection, then reset when no longer active
AlertStatus(active, new, sent) ==
    LET set == IF new THEN TRUE ELSE sent
    IN  IF ~active THEN FALSE ELSE set

update_detection_history(fh, sent, room, human_count, phone_count) ==
    LET h0 == HistoryOf(fh, room)
        s0 == SentOf(sent, room)
        humans == Trim(Append(h0.humans,
                              Outcome(human_count, HUMAN_MALPRACTICE_THRESHOLD)),
                       HUMAN_HISTORY_LENGTH)
        phones == Trim(Append(h0.phones,
                              Outcome(phone_count, PHONE_MALPRACTICE_THRESHOLD)),
                       PHONE_HISTORY_LENGTH)
        human_malpractice_active == MalpracticeActive(humans, HUMAN_HISTORY_LENGTH)
        phone_malpractice_active == MalpracticeActive(phones, PHONE_HISTORY_LENGTH)
        new_human_malpractice ==
            NewMalpractice(human_malpractice_active, s0.human_alert_sent)
        new_phone_malpractice ==
            NewMalpractice(phone_malpractice_active, s0.phone_alert_sent)
    IN  [frame_history |->
             SetEntry(fh, room, [humans |-> humans, phones |-> phones]),
         alert_sent |->
             SetEntry(sent, room,
                 [human_alert_sent |->
                      AlertStatus(human_malpractice_active, new_human_malpractice,
                                  s0.human_alert_sent),
                  phone_alert_sent |->
                      AlertStatus(phone_malpractice_active, new_phone_malpractice,
                                  s0.phone_alert_sent)]),
         new_human_malpractice |-> new_human_malpractice,
         new_phone_malpractice |-> new_phone_malpractice]

(***************************************************************************)
(* analyze_malpractice (main.py:499-534).                                  *)
(***************************************************************************)
HumanAlert == "Human detected"
PhoneAlert == "Smartphone detected"

\* bug: elif, the phone alert is dropped when a human alert is given
Alerts_elif(new_human_malpractice, new_phone_malpractice) ==
    LET a1 == IF new_human_malpractice THEN <<HumanAlert>>
              ELSE IF new_phone_malpractice THEN <<PhoneAlert>> ELSE <<>>
        malpractice_detected == new_human_malpractice \/ new_phone_malpractice
    IN  [alerts |-> a1, malpractice_detected |-> malpractice_detected]

\* main.py:503-526   the alert list and malpractice_detected
Alerts(new_human_malpractice, new_phone_malpractice) ==
    LET a1 == IF new_human_malpractice THEN <<HumanAlert>> ELSE <<>>
        a2 == IF new_phone_malpractice THEN Append(a1, PhoneAlert) ELSE a1
        malpractice_detected == new_human_malpractice \/ new_phone_malpractice
    IN  [alerts |-> IF ~malpractice_detected THEN <<>> ELSE a2,
         malpractice_detected |-> malpractice_detected]

analyze_malpractice(fh, sent, room, human_count, phone_count) ==
    LET u == update_detection_history(fh, sent, room, human_count, phone_count)
        a == Alerts(u.new_human_malpractice, u.new_phone_malpractice)
    IN  [frame_history |-> u.frame_history,
         alert_sent |-> u.alert_sent,
         new_human_malpractice |-> u.new_human_malpractice,
         new_phone_malpractice |-> u.new_phone_malpractice,
         alerts |-> a.alerts,
         malpractice_detected |-> a.malpractice_detected]

(***************************************************************************)
(* detect_humans (main.py:536-612).                                        *)
(***************************************************************************)
\* main.py:551-594   the HTTPException raised inside the try block
RaisedStatus(frame) ==
    IF frame \in {"invalid_base64", "undecodable"} THEN 400 ELSE 500

\* main.py:611-612   except Exception: every exception of the try block,
\* HTTPException included, is raised again with status 500
OuterExcept(raised) == 500

\* bug: a frame whose inference or postprocessing failed is analysed as a
\* frame with no detections before the error is raised
detect_humans_late_raise(fh, sent, sess, room, frame, human_count, phone_count) ==
    IF ~sess
    THEN [status |-> 503, analysed |-> FALSE,
          frame_history |-> fh, alert_sent |-> sent]
    ELSE IF frame \in {"invalid_base64", "undecodable", "preprocess_error"}
    THEN [status |-> OuterExcept(RaisedStatus(frame)), analysed |-> FALSE,
          frame_history |-> fh, alert_sent |-> sent]
    ELSE LET a == analyze_malpractice(fh, sent, room, human_count, phone_count)
         IN  IF frame # "ok"
             THEN [status |-> OuterExcept(RaisedStatus(frame)),
                   analysed |-> FALSE,
                   frame_history |-> a.frame_history,
                   alert_sent |-> a.alert_sent]
             ELSE [status |-> 200, analysed |-> TRUE,
                   frame_history |-> a.frame_history,
                   alert_sent |-> a.alert_sent,
                   new_human_malpractice |-> a.new_human_malpractice,
                   new_phone_malpractice |-> a.new_phone_malpractice,
                   alerts |-> a.alerts,
                   malpractice_detected |-> a.malpractice_detected]

detect_humans(fh, sent, sess, room, frame, human_count, phone_count) ==
    IF ~sess
    THEN [status |-> 503, analysed |-> FALSE,
          frame_history |-> fh, alert_sent |-> sent]
    ELSE IF frame # "ok"
    THEN [status |-> OuterExcept(RaisedStatus(frame)), analysed |-> FALSE,
          frame_history |-> fh, alert_sent |-> sent]
    ELSE LET a == analyze_malpractice(fh, sent, room, human_count, phone_count)
         IN  [status |-> 200, analysed |-> TRUE,
              frame_history |-> a.frame_history, alert_sent |-> a.alert_sent,
              new_human_malpractice |-> a.new_human_malpractice,
              new_phone_malpractice |-> a.new_phone_malpractice,
              alerts |-> a.alerts,
              malpractice_detected |-> a.malpractice_detected]

(***************************************************************************)
(* The overlay detector (overlay_detection.py).  Scores are kept as exact  *)
(* fractions: the colour, text and UI sub-scores in tenths, the scenario   *)
(* sub-score in fifteenths, confidences and thresholds in six-hundredths,  *)
(* the unit in which every weighted product of the fusion is a whole       *)
(* number.                                                                 *)
(***************************************************************************)
Unit == 600

\* OverlayDetector(detection_threshold=0.6), main.py:789
detection_threshold == 360

\* use_calibration keeps its default, overlay_detection.py:22
use_calibration == TRUE

None == <<>>

\* the demo paths: 0.90 for the trigger, 0.95 for an alert, at most 4 alerts,
\* 2.0 seconds apart
TriggerConfidence == 540
DemoConfidence == 570
DemoAlerts == 4
DemoInterval == 2

Min2(a, b) == IF a < b THEN a ELSE b

(***************************************************************************)
(* The calibration file: absent, present but unreadable (I/O error or not  *)
(* JSON), or a JSON object whose 'threshold' is missing or null (None) or  *)
(* a number.                                                               *)
(***************************************************************************)
MaxClock == 5
StartClock == 2

FileThresholds == {0, 300, 570}

\* the keys of the file that are read: threshold, normal_samples and
\* cheat_samples (overlay_calibration.py:156-163)
File(exists, readable, threshold, normal, cheat) ==
    [exists |-> exists, readable |-> readable, threshold |-> threshold,
     normal_samples |-> normal, cheat_samples |-> cheat]

AbsentFile == File(FALSE, FALSE, None, <<>>, <<>>)

UnreadableFile == File(TRUE, FALSE, None, <<>>, <<>>)

CalibrationFiles ==
    {AbsentFile, UnreadableFile, File(TRUE, TRUE, None, <<>>, <<>>)}
    \cup {File(TRUE, TRUE, <<t>>, <<>>, <<>>) : t \in FileThresholds}

\* a threshold of 0.0 is falsy and only changes what is printed
load_calibration_data_falsy_is_none(file) ==
    IF file.exists /\ file.readable /\ file.threshold # None
                   /\ file.threshold # <<0>>
    THEN file.threshold
    ELSE None

\* _load_calibration_data, the value left in self.calibrated_threshold
load_calibration_data(file) ==
    IF file.exists
    THEN IF file.readable THEN file.threshold ELSE None
    ELSE None

get_effective_threshold(calibrated) ==
    IF use_calibration /\ calibrated # None
    THEN calibrated[1]
    ELSE detection_threshold

(***************************************************************************)
(* Frames.  A payload is one of the two demo strings, the empty string, a  *)
(* string that is not base64, base64 of something that is not an image, or *)
(* an image.  An image is described by what the OpenCV primitives find in  *)
(* it: the stage that raises, if one does, and the counts the extractors   *)
(* turn into sub-scores.                                                   *)
(***************************************************************************)
Payload(kind, fail, c, t, r, p, h) ==
    [kind |-> kind, fail |-> fail, color_regions |-> c, text_regions |-> t,
     rectangular |-> r, popup_windows |-> p, peak_channels |-> h]

Blank(kind) == Payload(kind, "none", 0, 0, FALSE, 0, 0)

ColorCounts == {0, 10, 25}
TextCounts == {0, 6, 9}
ScenarioCounts == {<<0, 0>>, <<3, 3>>}

Images ==
    {Payload("image", "none", c, t, r, s[1], s[2]) :
        c \in ColorCounts, t \in TextCounts, r \in BOOLEAN,
        s \in ScenarioCounts}

Extractors == {"color", "text", "ui", "video"}

\* images on which one stage raises; the other stages would find these counts
FailingImages ==
    {Payload("image", f, 10, 9, TRUE, 3, 3) :
        f \in {"preprocess", "screen_region"} \cup Extractors}

Undecodable == {Blank("invalid_base64"), Blank("not_image")}

DemoStrings == {Blank("demo_tab_switch_trigger"), Blank("demo_check_sequence")}

Payloads ==
    DemoStrings \cup {Blank("empty")} \cup Undecodable \cup Images
    \cup FailingImages

(***************************************************************************)
(* Sub-scores (overlay_detection.py:516-519).                              *)
(***************************************************************************)
\* tenths; the sum of the regions of every colour range over 10.0, no clip
color_score(frame) == frame.color_regions

\* tenths; min(len(text_regions) / 10.0, 1.0)
text_score(frame) == Min2(frame.text_regions, 10)

\* tenths; 0.7 when more than 4 horizontal and 4 vertical lines, else 0
ui_score(frame) == IF frame.rectangular THEN 7 ELSE 0

\* fifteenths; min((popup_windows * 0.4 + 0.2 per channel) / 3.0, 1.0)
video_score(frame) ==
    Min2(2 * frame.popup_windows + frame.peak_channels, 15)

\* the weighted sum before the clip, in six-hundredths
WeightedSum(c, t, u, v) == 18 * c + 15 * t + 12 * u + 10 * v

final_confidence_unclipped(c, t, u, v) == WeightedSum(c, t, u, v)

final_confidence_equal_weights(c, t, u, v) ==
    Min2(15 * c + 15 * t + 15 * u + 10 * v, Unit)

\* min(color*0.3 + text*0.25 + ui*0.2 + video*0.25, 1.0)
final_confidence(c, t, u, v) == Min2(WeightedSum(c, t, u, v), Unit)

overlay_type_text_first(confidence, threshold, t, u, v) ==
    IF confidence > threshold
    THEN IF t > 6 THEN "text_solution_overlay"
         ELSE IF 2 * v > 15 THEN "cheat_tool_overlay"
         ELSE IF u > 5 THEN "popup_overlay"
         ELSE "suspicious_overlay"
    ELSE "None"

\* the category (overlay_detection.py:533-542): video_score > 0.5, then
\* text_score > 0.6, then ui_score > 0.5
overlay_type(confidence, threshold, t, u, v) ==
    IF confidence > threshold
    THEN IF 2 * v > 15 THEN "cheat_tool_overlay"
         ELSE IF t > 6 THEN "text_solution_overlay"
         ELSE IF u > 5 THEN "popup_overlay"
         ELSE "suspicious_overlay"
    ELSE "None"

(***************************************************************************)
(* DetectionResult.  suspicious_regions is the number of regions listed;   *)
(* analysis_details keeps the keys the claims read.                        *)
(***************************************************************************)
Details(mode, alert_sequence, error, c, t, u, v) ==
    [mode |-> mode, alert_sequence |-> alert_sequence, error |-> error,
     color_score |-> c, text_score |-> t, ui_score |-> u, video_score |-> v]

DetectionResult(has_overlay, confidence, type, regions, details, timestamp) ==
    [has_overlay |-> has_overlay, confidence |-> confidence,
     overlay_type |-> type, suspicious_regions |-> regions,
     analysis_details |-> details, timestamp |-> timestamp]

NoResult ==
    DetectionResult(FALSE, 0, "None", 0, Details("none", 0, "", 0, 0, 0, 0), 0)

\* what a call leaves in the detector and gives back
Returned(active, sent, last, result, raised) ==
    [demo_sequence_active |-> active, demo_alerts_sent |-> sent,
     last_demo_time |-> last, result |-> result, raised |-> raised]

check_demo_sequence_unbounded(active, sent, last, now) ==
    IF active /\ now - last >= DemoInterval
    THEN [alert |-> TRUE, type |-> "overlay_detected",
          demo_sequence_active |-> ~(sent + 1 >= DemoAlerts),
          demo_alerts_sent |-> sent + 1, last_demo_time |-> now]
    ELSE [alert |-> FALSE, type |-> "None", demo_sequence_active |-> active,
          demo_alerts_sent |-> sent, last_demo_time |-> last]

\* _check_demo_sequence (overlay_detection.py:123-148)
check_demo_sequence(active, sent, last, now) ==
    IF ~active
    THEN [alert |-> FALSE, type |-> "None", demo_sequence_active |-> active,
          demo_alerts_sent |-> sent, last_demo_time |-> last]
    ELSE IF now - last >= DemoInterval /\ sent < DemoAlerts
    THEN [alert |-> TRUE, type |-> "overlay_detected",
          demo_sequence_active |-> ~(sent + 1 >= DemoAlerts),
          demo_alerts_sent |-> sent + 1, last_demo_time |-> now]
    ELSE [alert |-> FALSE, type |-> "None", demo_sequence_active |-> active,
          demo_alerts_sent |-> sent, last_demo_time |-> last]

\* the stage of the analysis at which the payload makes the code raise
Raises(frame) ==
    \/ frame.kind \in {"empty", "invalid_base64", "not_image"}
    \/ frame.fail # "none"

ErrorOf(frame) == IF frame.kind # "image" THEN frame.kind ELSE frame.fail

except_Exception_reraises(active, sent, last, error, now) ==
    Returned(active, sent, last, NoResult, TRUE)

\* except Exception as e (overlay_detection.py:560-569)
except_Exception(active, sent, last, error, now) ==
    Returned(active, sent, last,
             DetectionResult(FALSE, 0, "None", 0,
                             Details("error", 0, error, 0, 0, 0, 0), now),
             FALSE)

\* the analysis of an image that no stage fails on
Analysis(calibrated, frame, now) ==
    LET c == color_score(frame)
        t == text_score(frame)
        u == ui_score(frame)
        v == video_score(frame)
        confidence == final_confidence(c, t, u, v)
        effective_threshold == get_effective_threshold(calibrated)
    IN  DetectionResult(confidence > effective_threshold, confidence,
                        overlay_type(confidence, effective_threshold, t, u, v),
                        frame.color_regions + frame.text_regions,
                        Details("analysis", 0, "", c, t, u, v), now)

\* detect_overlay (overlay_detection.py:415-569)
detect_overlay(calibrated, active, sent, last, frame, now) ==
    IF frame.kind = "demo_tab_switch_trigger"
    THEN Returned(TRUE, 0, now,
                  DetectionResult(TRUE, TriggerConfidence,
                                  "tab_switch_detected", 0,
                                  Details("tab_switch", 0, "", 0, 0, 0, 0),
                                  now),
                  FALSE)
    ELSE IF frame.kind = "demo_check_sequence"
    THEN IF active /\ sent < DemoAlerts
         THEN Returned(active, sent + 1, last,
                       DetectionResult(TRUE, DemoConfidence,
                                       "overlay_detected", 1,
                                       Details("alert_sequence", sent + 1, "",
                                               0, 0, 0, 0),
                                       now),
                       FALSE)
         ELSE Returned(active, sent, last,
                       DetectionResult(FALSE, 0, "None", 0,
                                       Details("sequence_complete", 0, "",
                                               0, 0, 0, 0),
                                       now),
                       FALSE)
    ELSE LET d == check_demo_sequence(active, sent, last, now)
         IN  IF d.alert
             THEN Returned(d.demo_sequence_active, d.demo_alerts_sent,
                           d.last_demo_time,
                           DetectionResult(TRUE, DemoConfidence, d.type, 1,
                                           Details("alert_sequence",
                                                   d.demo_alerts_sent, "",
                                                   0, 0, 0, 0),
                                           now),
                           FALSE)
             ELSE IF Raises(frame)
             THEN except_Exception(d.demo_sequence_active, d.demo_alerts_sent,
                                   d.last_demo_time, ErrorOf(frame), now)
             ELSE Returned(d.demo_sequence_active, d.demo_alerts_sent,
                           d.last_demo_time,
                           Analysis(calibrated, frame, now), FALSE)

(***************************************************************************)
(* POST /detect-overlays (main.py:689-759).  503 without a detector; an    *)
(* empty payload raises ValueError, answered 500 like anything else that   *)
(* escapes detect_overlay; otherwise the result is returned with 200.      *)
(***************************************************************************)
OverlayResponse(frame, status, result) ==
    [frame |-> frame, status |-> status, result |-> result]

NoOverlayResponse == OverlayResponse(Blank("none"), 0, NoResult)

detect_overlays(detector, calibrated, active, sent, last, frame, now) ==
    IF ~detector
    THEN [response |-> OverlayResponse(frame, 503, NoResult),
          demo_sequence_active |-> active, demo_alerts_sent |-> sent,
          last_demo_time |-> last]
    ELSE IF frame.kind = "empty"
    THEN [response |-> OverlayResponse(frame, 500, NoResult),
          demo_sequence_active |-> active, demo_alerts_sent |-> sent,
          last_demo_time |-> last]
    ELSE LET r == detect_overlay(calibrated, active, sent, last, frame, now)
         IN  [response |-> OverlayResponse(frame,
                                           IF r.raised THEN 500 ELSE 200,
                                           r.result),
              demo_sequence_active |-> r.demo_sequence_active,
              demo_alerts_sent |-> r.demo_alerts_sent,
              last_demo_time |-> r.last_demo_time]

\* OverlayDetector.__init__ run by startup_event (main.py:787-794): reached
\* only when the DETR model loaded; the demo state starts idle
OverlayInit(files) ==
    /\ calibration_file \in files
    /\ overlay_detector = session
    /\ calibrated_threshold = load_calibration_data(calibration_file)
    /\ demo_sequence_active = FALSE
    /\ demo_alerts_sent = 0
    /\ last_demo_time = 0
    /\ clock = StartClock
    /\ overlay_response = NoOverlayResponse

(***************************************************************************)
(* The calibrator (overlay_calibration.py).  A sample keeps the           *)
(* confidence, the diagnostics and the region count of the result; an      *)
(* analysis result holds tuples (screen_region, frame_dimensions, the      *)
(* regions), the other results hold none.                                  *)
(***************************************************************************)
Sample(confidence, details, regions, containers) ==
    [confidence |-> confidence, analysis_details |-> details,
     suspicious_regions |-> regions, containers |-> containers]

ContainersOf(result) ==
    IF result.analysis_details.mode = "analysis" THEN "tuple" ELSE "none"

\* what a function gives back: a value, or an exception
Ret(value) == [raised |-> FALSE, value |-> value]

Raise == [raised |-> TRUE, value |-> None]

\* add_normal_sample and add_cheat_sample (overlay_calibration.py:21-61): a
\* new detector, which reads the calibration file, analyses the image; the
\* threshold plays no part in what is kept
add_sample(samples, file, frame, now) ==
    LET r == detect_overlay(load_calibration_data(file), FALSE, 0, 0,
                            frame, now)
    IN  IF r.raised
        THEN samples
        ELSE Append(samples,
                    Sample(r.result.confidence, r.result.analysis_details,
                           r.result.suspicious_regions,
                           ContainersOf(r.result)))

Confidences(samples) == {samples[i].confidence : i \in DOMAIN samples}

SetMax(S) == CHOOSE x \in S : \A y \in S : y <= x

SetMin(S) == CHOOSE x \in S : \A y \in S : x <= y

\* format(value, '.3f') is defined for a float and raises TypeError for a list
FormatRaises(type) == type # "float"

\* without the test of line 65 min() of an empty list raises ValueError
analyze_samples_no_empty_test(normal, cheat) ==
    Raise

\* analyze_samples (overlay_calibration.py:63-107); line 87 formats the list
\* cheat_confidences with '.3f'
analyze_samples(normal, cheat) ==
    IF normal = <<>> \/ cheat = <<>>
    THEN Ret(None)
    ELSE IF FormatRaises("list")
    THEN Raise
    ELSE LET max_normal == SetMax(Confidences(normal))
             min_cheat == SetMin(Confidences(cheat))
         IN  IF max_normal < min_cheat
             THEN Ret(<<(max_normal + min_cheat) \div 2>>)
             ELSE Ret(None)

\* json.dump writes tuples as arrays, which json.load reads as lists
json(samples) ==
    [i \in DOMAIN samples |->
        [samples[i] EXCEPT !.containers = IF @ = "tuple" THEN "list" ELSE @]]

save_calibration_without_samples(threshold, normal, cheat) ==
    File(TRUE, TRUE, <<threshold>>, <<>>, <<>>)

\* save_calibration (overlay_calibration.py:154-168), the file it leaves
save_calibration(threshold, normal, cheat) ==
    File(TRUE, TRUE, <<threshold>>, json(normal), json(cheat))

\* load_calibration (overlay_calibration.py:170-182) on a new calibrator
load_calibration(file) ==
    IF file.exists
    THEN IF file.readable
         THEN [raised |-> FALSE, value |-> file.threshold,
               normal_samples |-> file.normal_samples,
               cheat_samples |-> file.cheat_samples]
         ELSE [raised |-> TRUE, value |-> None,
               normal_samples |-> <<>>, cheat_samples |-> <<>>]
    ELSE [raised |-> FALSE, value |-> None,
          normal_samples |-> <<>>, cheat_samples |-> <<>>]

\* the loops of calibrate_from_files (overlay_calibration.py:190-205): a path
\* that cannot be opened is skipped
RECURSIVE AddAll(_, _, _, _)
AddAll(samples, paths, file, now) ==
    IF paths = <<>>
    THEN samples
    ELSE AddAll(IF Head(paths).kind = "missing_file"
                THEN samples
                ELSE add_sample(samples, file, Head(paths), now),
                Tail(paths), file, now)

\* Python truth of the value analyze_samples returned
Truthy(threshold) == threshold # None /\ threshold # <<0>>

\* calibrate_from_files (overlay_calibration.py:185-213)
calibrate_from_files(normal_paths, cheat_paths, file, now) ==
    LET normal == AddAll(<<>>, normal_paths, file, now)
        cheat == AddAll(<<>>, cheat_paths, file, now)
        threshold == analyze_samples(normal, cheat)
    IN  IF threshold.raised
        THEN [raised |-> TRUE, value |-> None, file |-> file,
              normal_samples |-> normal, cheat_samples |-> cheat]
        ELSE IF Truthy(threshold.value)
        THEN [raised |-> FALSE, value |-> threshold.value,
              file |-> save_calibration(threshold.value[1], normal, cheat),
              normal_samples |-> normal, cheat_samples |-> cheat]
        ELSE [raised |-> FALSE, value |-> None, file |-> file,
              normal_samples |-> normal, cheat_samples |-> cheat]

(***************************************************************************)
(* detect_screen_region (overlay_detection.py:215-247).  screen_contour is *)
(* None or the bounding rectangle of the contour that qualified; the frame *)
(* is the preprocessed one, at least 800 wide (overlay_detection.py:188).  *)
(***************************************************************************)
MaxExtra == 9
BaseWidth == 800
BaseHeight == 600

FrameWidths == BaseWidth .. (BaseWidth + MaxExtra)
FrameHeights == BaseHeight .. (BaseHeight + MaxExtra)

Contours == {None, << <<40, 30, 640, 480>> >>}

\* only one margin is taken off each side length
detect_screen_region_one_margin(screen_contour, w, h) ==
    IF screen_contour # None
    THEN screen_contour[1]
    ELSE <<w \div 10, h \div 10, w - w \div 10, h - h \div 10>>

\* int(w * 0.1) is w \div 10: the double nearest to 0.1 is above 0.1
detect_screen_region(screen_contour, w, h) ==
    IF screen_contour # None
    THEN screen_contour[1]
    ELSE LET margin_x == w \div 10
             margin_y == h \div 10
         IN  <<margin_x, margin_y, w - 2 * margin_x, h - 2 * margin_y>>

RegionCall(called, screen_contour, w, h, region) ==
    [called |-> called, screen_contour |-> screen_contour, w |-> w, h |-> h,
     region |-> region]

NoRegionCall == RegionCall(FALSE, None, 0, 0, <<0, 0, 0, 0>>)

(***************************************************************************)
(* What the calibration tools are given: a path that cannot be opened,     *)
(* images the analysis scores 0.3 and 0.74, and a file that is not an      *)
(* image.                                                                  *)
(***************************************************************************)
MaxSamples == 2
MaxDemoClock == 10

CalibrationImages ==
    {Payload("image", "none", 10, 0, FALSE, 0, 0),
     Payload("image", "none", 10, 6, TRUE, 3, 3),
     Blank("not_image")}

CalibrationPaths == CalibrationImages \cup {Blank("missing_file")}

\* the lists of no, one and two paths
PathLists ==
    {<<>>} \cup {<<a>> : a \in CalibrationPaths}
    \cup {<<a, b>> : a \in CalibrationPaths, b \in CalibrationPaths}

SaveThresholds == {0, 300}

NoOutcome ==
    [called |-> FALSE, raised |-> FALSE, value |-> None,
     normal_samples |-> <<>>, cheat_samples |-> <<>>]

NoLoad ==
    [called |-> FALSE, raised |-> FALSE, value |-> None,
     normal_samples |-> <<>>, cheat_samples |-> <<>>]

NoSave == [threshold |-> None, normal_samples |-> <<>>, cheat_samples |-> <<>>]

\* no request, no call and no calibrator object yet
ToolInit ==
    /\ request_frame = "none"
    /\ region_call = NoRegionCall
    /\ normal_samples = <<>>
    /\ cheat_samples = <<>>
    /\ calibration_outcome = NoOutcome
    /\ loaded = NoLoad
    /\ saved = NoSave
    /\ fresh = {}
    /\ overlay_alerts = 0

(***************************************************************************)
(* State after the module is loaded and startup_event has run              *)
(* (main.py:22-28, 769-779): empty dictionaries; the session is loaded or, *)
(* when load_model returned False, still None.                             *)
(***************************************************************************)
InitDetection ==
    /\ session \in BOOLEAN
    /\ frame_history = <<>>
    /\ alert_sent = <<>>
    /\ inflight = [i \in ReqIds |-> NoReq]
    /\ response = NoResponse
    /\ last_call = NoCall
    /\ call_args = NoArgs
    /\ handled = 0
    /\ streak = [r \in Rooms |-> [human |-> 0, phone |-> 0]]
    /\ since_alert = [r \in Rooms |-> [human |-> FALSE, phone |-> FALSE]]
    /\ alerts_returned = [r \in Rooms |-> [human |-> 0, phone |-> 0]]
    /\ overlap = [i \in ReqIds |-> [human |-> FALSE, phone |-> FALSE]]
    /\ outcomes = [r \in Rooms |-> <<>>]
    /\ alerts_log = [r \in Rooms |-> <<>>]

\* the service started in a directory without a calibration file
Init == InitDetection /\ OverlayInit({AbsentFile}) /\ ToolInit

\* the engine called directly: the session plays no part
InitEngine == Init /\ session

(***************************************************************************)
(* Observers of a call analyze_malpractice(room, human_count, phone_count) *)
(* that returned a: what was pushed and what was returned.                 *)
(***************************************************************************)
\* the frame outcome of a condition: any positive count (spec 4.4)
Positive(count) == count >= 1

CallRecord(room, a) ==
    [room |-> room,
     new_human_malpractice |-> a.new_human_malpractice,
     new_phone_malpractice |-> a.new_phone_malpractice,
     alerts |-> a.alerts, malpractice_detected |-> a.malpractice_detected]

NextStreak(room, hb, pb) ==
    [streak EXCEPT ![room] = [human |-> IF hb THEN @.human + 1 ELSE 0,
                              phone |-> IF pb THEN @.phone + 1 ELSE 0]]

NextSinceAlert(room, hb, pb, a) ==
    [since_alert EXCEPT ![room] =
        [human |-> IF a.new_human_malpractice THEN TRUE ELSE @.human /\ hb,
         phone |-> IF a.new_phone_malpractice THEN TRUE ELSE @.phone /\ pb]]

Counted(n, new) == IF new /\ n < MaxCounted THEN n + 1 ELSE n

NextAlertsReturned(room, a) ==
    [alerts_returned EXCEPT ![room] =
        [human |-> Counted(@.human, a.new_human_malpractice),
         phone |-> Counted(@.phone, a.new_phone_malpractice)]]

\* the effect of one analysed frame on the dictionaries and the observers
Analysed(room, human_count, phone_count, a) ==
    /\ frame_history' = a.frame_history
    /\ alert_sent' = a.alert_sent
    /\ last_call' = CallRecord(room, a)
    /\ streak' = NextStreak(room, Positive(human_count), Positive(phone_count))
    /\ since_alert' = NextSinceAlert(room, Positive(human_count),
                                     Positive(phone_count), a)

(***************************************************************************)
(* The engine called directly, any room, any counts.                       *)
(***************************************************************************)
AnalyzeFrame(room, human_count, phone_count) ==
    LET a == analyze_malpractice(frame_history, alert_sent, room,
                                 human_count, phone_count)
    IN  /\ Positive(human_count) => streak[room].human < MaxStreak
        /\ Positive(phone_count) => streak[room].phone < MaxStreak
        /\ Analysed(room, human_count, phone_count, a)
        /\ UNCHANGED <<session, inflight, response, call_args, handled,
                       alerts_returned, overlap, outcomes, alerts_log>>
        /\ UNCHANGED overlayVars
        /\ UNCHANGED toolVars

NextEngine ==
    \E room \in Rooms, human_count \in Counts, phone_count \in Counts :
        AnalyzeFrame(room, human_count, phone_count)

SpecEngine == InitEngine /\ [][NextEngine]_vars

(***************************************************************************)
(* The engine called directly for one room that starts with no history,    *)
(* with the alerts it returns counted.                                     *)
(***************************************************************************)
TheRoom == "A"

RoomFrame(human_count, phone_count) ==
    LET a == analyze_malpractice(frame_history, alert_sent, TheRoom,
                                 human_count, phone_count)
    IN  /\ Positive(human_count) => streak[TheRoom].human < MaxStreak
        /\ Positive(phone_count) => streak[TheRoom].phone < MaxStreak
        /\ Analysed(TheRoom, human_count, phone_count, a)
        /\ alerts_returned' = NextAlertsReturned(TheRoom, a)
        /\ UNCHANGED <<session, inflight, response, call_args, handled,
                       overlap, outcomes, alerts_log>>
        /\ UNCHANGED overlayVars
        /\ UNCHANGED toolVars

NextRoom ==
    \E human_count \in Counts, phone_count \in Counts :
        RoomFrame(human_count, phone_count)

SpecRoom == InitEngine /\ [][NextRoom]_vars

(***************************************************************************)
(* The engine called directly, with the calls of every room logged.        *)
(***************************************************************************)
LoggedFrame(room, human_count, phone_count) ==
    LET a == analyze_malpractice(frame_history, alert_sent, room,
                                 human_count, phone_count)
    IN  /\ Len(outcomes["A"]) + Len(outcomes["B"]) < MaxLog
        /\ Analysed(room, human_count, phone_count, a)
        /\ call_args' = [human_count |-> human_count,
                         phone_count |-> phone_count]
        /\ outcomes' = [outcomes EXCEPT ![room] =
                           Append(@, <<Positive(human_count),
                                       Positive(phone_count)>>)]
        /\ alerts_log' = [alerts_log EXCEPT ![room] = Append(@, a.alerts)]
        /\ UNCHANGED <<session, inflight, response, handled, alerts_returned,
                       overlap>>
        /\ UNCHANGED overlayVars
        /\ UNCHANGED toolVars

NextLog ==
    \E room \in Rooms, human_count \in Counts, phone_count \in Counts :
        LoggedFrame(room, human_count, phone_count)

SpecLog == InitEngine /\ [][NextLog]_vars

(***************************************************************************)
(* The service.  uvicorn runs one event loop (main.py:804-806) and         *)
(* detect_humans is an async def with no await in its body: a request, once*)
(* the loop starts its handler, runs to its response before any other      *)
(* handler runs.  Requests wait in flight in any number and are taken in   *)
(* any order.                                                              *)
(***************************************************************************)
Arrive(id, room) ==
    /\ inflight[id] = NoReq
    /\ inflight' = [inflight EXCEPT ![id] = room]
    /\ overlap' = [overlap EXCEPT ![id] = [human |-> FALSE, phone |-> FALSE]]
    /\ last_call' = NoCall
    /\ response' = NoResponse
    /\ UNCHANGED <<session, frame_history, alert_sent, call_args, handled,
                   streak, since_alert, alerts_returned, outcomes, alerts_log>>
    /\ UNCHANGED overlayVars
    /\ UNCHANGED toolVars

\* the other requests of the room still in flight see what this frame returned
NextOverlap(id, room, hb, pb, a) ==
    [i \in ReqIds |->
        IF i = id \/ inflight[i] # room
        THEN overlap[i]
        ELSE [human |-> IF a.new_human_malpractice THEN TRUE
                        ELSE overlap[i].human /\ hb,
              phone |-> IF a.new_phone_malpractice THEN TRUE
                        ELSE overlap[i].phone /\ pb]]

Handle(id, frame, human_count, phone_count) ==
    LET room == inflight[id]
        r == detect_humans(frame_history, alert_sent, session, room, frame,
                           human_count, phone_count)
    IN  /\ inflight[id] # NoReq
        /\ inflight' = [inflight EXCEPT ![id] = NoReq]
        /\ IF r.analysed
           THEN /\ handled < MaxFrames
                /\ handled' = handled + 1
                /\ Analysed(room, human_count, phone_count, r)
                /\ overlap' = NextOverlap(id, room, Positive(human_count),
                                          Positive(phone_count), r)
                /\ response' = [room |-> room, status |-> r.status,
                                alerts |-> r.alerts,
                                malpractice_detected |-> r.malpractice_detected]
                /\ UNCHANGED alerts_returned
           ELSE /\ frame_history' = r.frame_history
                /\ alert_sent' = r.alert_sent
                /\ last_call' = NoCall
                /\ response' = [room |-> room, status |-> r.status,
                                alerts |-> <<>>, malpractice_detected |-> FALSE]
                /\ overlap' = overlap
                /\ UNCHANGED <<handled, streak, since_alert, alerts_returned>>
        /\ UNCHANGED <<session, call_args, outcomes, alerts_log>>
        /\ UNCHANGED overlayVars
        /\ UNCHANGED toolVars

\* the detections of a frame: none is computed for a frame that fails
FrameCounts(frame) == IF frame = "ok" THEN Counts ELSE {0}

Next ==
    \/ \E id \in ReqIds, room \in Rooms : Arrive(id, room)
    \/ \E id \in ReqIds, frame \in Frames :
          \E human_count, phone_count \in FrameCounts(frame) :
              Handle(id, frame, human_count, phone_count)

Spec == Init /\ [][Next]_vars

(***************************************************************************)
(* The overlay endpoint.  detect_overlays is an async def with no await in *)
(* its body, so requests are answered one at a time; time passes between   *)
(* them.  The calibration file is whatever the start directory held.       *)
(***************************************************************************)
InitOverlay == InitDetection /\ OverlayInit(CalibrationFiles) /\ ToolInit

DetectOverlays(frame) ==
    LET r == detect_overlays(overlay_detector, calibrated_threshold,
                             demo_sequence_active, demo_alerts_sent,
                             last_demo_time, frame, clock)
    IN  /\ overlay_response' = r.response
        /\ demo_sequence_active' = r.demo_sequence_active
        /\ demo_alerts_sent' = r.demo_alerts_sent
        /\ last_demo_time' = r.last_demo_time
        /\ UNCHANGED <<calibration_file, overlay_detector,
                       calibrated_threshold, clock>>
        /\ UNCHANGED detectionVars
        /\ UNCHANGED toolVars

Tick ==
    /\ clock < MaxClock
    /\ clock' = clock + 1
    /\ UNCHANGED <<calibration_file, overlay_detector, calibrated_threshold,
                   demo_sequence_active, demo_alerts_sent, last_demo_time,
                   overlay_response>>
    /\ UNCHANGED detectionVars
    /\ UNCHANGED toolVars

NextOverlay ==
    \/ \E frame \in Payloads : DetectOverlays(frame)
    \/ Tick

SpecOverlay == InitOverlay /\ [][NextOverlay]_vars

(***************************************************************************)
(* detect_screen_region called on frames of every size.                    *)
(***************************************************************************)
DetectScreenRegion(screen_contour, w, h) ==
    /\ region_call' = RegionCall(TRUE, screen_contour, w, h,
                                 detect_screen_region(screen_contour, w, h))
    /\ UNCHANGED <<request_frame, normal_samples, cheat_samples,
                   calibration_outcome, loaded, saved, fresh, overlay_alerts>>
    /\ UNCHANGED detectionVars
    /\ UNCHANGED overlayVars

NextRegion ==
    \E screen_contour \in Contours, w \in FrameWidths, h \in FrameHeights :
        DetectScreenRegion(screen_contour, w, h)

SpecRegion == Init /\ [][NextRegion]_vars

(***************************************************************************)
(* calibrate_from_files run by the calibration script, in a directory that *)
(* may hold an earlier calibration file.                                   *)
(***************************************************************************)
CalibrateFromFiles(normal_paths, cheat_paths) ==
    LET r == calibrate_from_files(normal_paths, cheat_paths,
                                  calibration_file, clock)
    IN  /\ calibration_file' = r.file
        /\ calibration_outcome' =
               [called |-> TRUE, raised |-> r.raised, value |-> r.value,
                normal_samples |-> r.normal_samples,
                cheat_samples |-> r.cheat_samples]
        /\ UNCHANGED <<request_frame, region_call, normal_samples,
                       cheat_samples, loaded, saved, fresh, overlay_alerts>>
        /\ UNCHANGED <<overlay_detector, calibrated_threshold,
                       demo_sequence_active, demo_alerts_sent, last_demo_time,
                       clock, overlay_response>>
        /\ UNCHANGED detectionVars

NextCalibrate ==
    \E normal_paths \in PathLists, cheat_paths \in PathLists :
        CalibrateFromFiles(normal_paths, cheat_paths)

\* the directory holds no calibration file, or one with threshold 0.5
InitCalibrate ==
    /\ InitDetection
    /\ session
    /\ OverlayInit({AbsentFile, File(TRUE, TRUE, <<300>>, <<>>, <<>>)})
    /\ ToolInit

SpecCalibrate == InitCalibrate /\ [][NextCalibrate]_vars

(***************************************************************************)
(* A calibrator driven by hand: samples are added, the calibration is      *)
(* saved with a threshold, then a new calibrator loads it and a new        *)
(* detector is constructed.                                                *)
(***************************************************************************)
AddNormalSample(frame) ==
    /\ Len(normal_samples) + Len(cheat_samples) < MaxSamples
    /\ normal_samples' = add_sample(normal_samples, calibration_file, frame,
                                    clock)
    /\ UNCHANGED <<request_frame, region_call, cheat_samples,
                   calibration_outcome, loaded, saved, fresh, overlay_alerts>>
    /\ UNCHANGED detectionVars
    /\ UNCHANGED overlayVars

AddCheatSample(frame) ==
    /\ Len(normal_samples) + Len(cheat_samples) < MaxSamples
    /\ cheat_samples' = add_sample(cheat_samples, calibration_file, frame,
                                   clock)
    /\ UNCHANGED <<request_frame, region_call, normal_samples,
                   calibration_outcome, loaded, saved, fresh, overlay_alerts>>
    /\ UNCHANGED detectionVars
    /\ UNCHANGED overlayVars

SaveCalibration(threshold) ==
    /\ calibration_file' = save_calibration(threshold, normal_samples,
                                            cheat_samples)
    /\ saved' = [threshold |-> <<threshold>>,
                 normal_samples |-> normal_samples,
                 cheat_samples |-> cheat_samples]
    /\ fresh' = {}
    /\ UNCHANGED <<request_frame, region_call, normal_samples, cheat_samples,
                   calibration_outcome, loaded, overlay_alerts>>
    /\ UNCHANGED <<overlay_detector, calibrated_threshold,
                   demo_sequence_active, demo_alerts_sent, last_demo_time,
                   clock, overlay_response>>
    /\ UNCHANGED detectionVars

\* OverlayCalibrator().load_calibration()
LoadCalibration ==
    LET r == load_calibration(calibration_file)
    IN  /\ loaded' = [called |-> TRUE, raised |-> r.raised,
                      value |-> r.value,
                      normal_samples |-> r.normal_samples,
                      cheat_samples |-> r.cheat_samples]
        /\ fresh' = fresh \cup {"calibrator"}
        /\ UNCHANGED <<request_frame, region_call, normal_samples,
                       cheat_samples, calibration_outcome, saved,
                       overlay_alerts>>
        /\ UNCHANGED detectionVars
        /\ UNCHANGED overlayVars

\* OverlayDetector(), calibration enabled
Construct ==
    /\ overlay_detector' = TRUE
    /\ calibrated_threshold' = load_calibration_data(calibration_file)
    /\ demo_sequence_active' = FALSE
    /\ demo_alerts_sent' = 0
    /\ last_demo_time' = 0
    /\ fresh' = fresh \cup {"detector"}
    /\ UNCHANGED <<calibration_file, clock, overlay_response>>
    /\ UNCHANGED <<request_frame, region_call, normal_samples, cheat_samples,
                   calibration_outcome, loaded, saved, overlay_alerts>>
    /\ UNCHANGED detectionVars

NextRoundTrip ==
    \/ \E frame \in CalibrationImages : AddNormalSample(frame)
    \/ \E frame \in CalibrationImages : AddCheatSample(frame)
    \/ \E threshold \in SaveThresholds : SaveCalibration(threshold)
    \/ LoadCalibration
    \/ Construct

SpecRoundTrip == Init /\ [][NextRoundTrip]_vars

(***************************************************************************)
(* The demo sequence: the two demo strings and real frames, over the ten   *)
(* seconds four timed alerts take, with the alerts returned counted.       *)
(***************************************************************************)
DemoPayloads ==
    DemoStrings
    \cup {Payload("image", "none", 10, 0, FALSE, 0, 0), Blank("not_image")}

DemoRequest(frame) ==
    LET r == detect_overlays(overlay_detector, calibrated_threshold,
                             demo_sequence_active, demo_alerts_sent,
                             last_demo_time, frame, clock)
    IN  /\ overlay_response' = r.response
        /\ demo_sequence_active' = r.demo_sequence_active
        /\ demo_alerts_sent' = r.demo_alerts_sent
        /\ last_demo_time' = r.last_demo_time
        /\ overlay_alerts' =
               IF r.response.result.overlay_type = "tab_switch_detected"
               THEN 0
               ELSE IF r.response.result.overlay_type = "overlay_detected"
               THEN overlay_alerts + 1
               ELSE overlay_alerts
        /\ UNCHANGED <<calibration_file, overlay_detector,
                       calibrated_threshold, clock>>
        /\ UNCHANGED <<request_frame, region_call, normal_samples,
                       cheat_samples, calibration_outcome, loaded, saved,
                       fresh>>
        /\ UNCHANGED detectionVars

DemoTick ==
    /\ clock < MaxDemoClock
    /\ clock' = clock + 1
    /\ UNCHANGED <<calibration_file, overlay_detector, calibrated_threshold,
                   demo_sequence_active, demo_alerts_sent, last_demo_time,
                   overlay_response>>
    /\ UNCHANGED detectionVars
    /\ UNCHANGED toolVars

NextDemo ==
    \/ \E frame \in DemoPayloads : DemoRequest(frame)
    \/ DemoTick

SpecDemo == Init /\ [][NextDemo]_vars

(***************************************************************************)
(* /detect-humans requests of one room answered one at a time, with the    *)
(* payload of the request kept next to its response.                       *)
(***************************************************************************)
HumansRequest(frame, human_count, phone_count) ==
    LET r == detect_humans(frame_history, alert_sent, session, TheRoom, frame,
                           human_count, phone_count)
    IN  /\ handled < MaxFrames
        /\ handled' = handled + 1
        /\ request_frame' = frame
        /\ IF r.analysed
           THEN /\ Analysed(TheRoom, human_count, phone_count, r)
                /\ response' = [room |-> TheRoom, status |-> r.status,
                                alerts |-> r.alerts,
                                malpractice_detected |-> r.malpractice_detected]
           ELSE /\ frame_history' = r.frame_history
                /\ alert_sent' = r.alert_sent
                /\ last_call' = NoCall
                /\ response' = [room |-> TheRoom, status |-> r.status,
                                alerts |-> <<>>, malpractice_detected |-> FALSE]
                /\ UNCHANGED <<streak, since_alert>>
        /\ UNCHANGED <<session, inflight, call_args, alerts_returned, overlap,
                       outcomes, alerts_log>>
        /\ UNCHANGED <<region_call, normal_samples, cheat_samples,
                       calibration_outcome, loaded, saved, fresh,
                       overlay_alerts>>
        /\ UNCHANGED overlayVars

NextStatus ==
    \E frame \in Frames :
        \E human_count, phone_count \in FrameCounts(frame) :
            HumansRequest(frame, human_count, phone_count)

SpecStatus == Init /\ [][NextStatus]_vars

(***************************************************************************)
(* Properties of the debounce engine.                                      *)
(***************************************************************************)
Called == last_call.room \in Rooms

\* C1: at most one alert per maximal run of consecutive true outcomes: a call
\* that returns a new alert for a condition of a room is never made while an
\* earlier alert for that condition of that room has had no false outcome
\* after it.
C1_OneAlertPerRun ==
    [][\A room \in Rooms :
          last_call'.room = room =>
              /\ last_call'.new_human_malpractice => ~since_alert[room].human
              /\ last_call'.new_phone_malpractice => ~since_alert[room].phone]_vars

\* a 5th consecutive true human outcome and a 3rd consecutive true phone
\* outcome came after the alerts of their runs, and returned none
C1_Witness ==
    /\ last_call.room = "A"
    /\ streak["A"].human = HUMAN_HISTORY_LENGTH + 1
    /\ streak["A"].phone = PHONE_HISTORY_LENGTH + 1
    /\ since_alert["A"].human /\ since_alert["A"].phone
    /\ ~last_call.new_human_malpractice /\ ~last_call.new_phone_malpractice

\* C2: human condition, window 4: a call returns new_human_malpractice iff
\* its human outcome is exactly the 4th consecutive true since the last
\* false human outcome or since the room's first frame.
C2_HumanAlertOnFourth ==
    Called => (last_call.new_human_malpractice
                   <=> streak[last_call.room].human = 4)

\* the second human alert of the room: a 4th consecutive true after a false
\* that broke the run of the first alert
C2_Witness ==
    /\ Called
    /\ last_call.new_human_malpractice
    /\ alerts_returned[last_call.room].human = 2

\* C3: device condition, window 2: a call returns new_phone_malpractice iff
\* its device outcome is exactly the 2nd consecutive true since the last
\* false device outcome or since the room's first frame.
C3_PhoneAlertOnSecond ==
    Called => (last_call.new_phone_malpractice
                   <=> streak[last_call.room].phone = 2)

\* the second phone alert of the room
C3_Witness ==
    /\ Called
    /\ last_call.new_phone_malpractice
    /\ alerts_returned[last_call.room].phone = 2

\* the transition function of spec 4.4 for one condition
SpecPush(window, b, length) ==
    LET w == Append(window, b) IN IF Len(w) > length THEN Tail(w) ELSE w

SpecPersistent(window, length) ==
    Len(window) = length /\ \A i \in 1..Len(window) : window[i]

WindowBefore(room) ==
    IF room \in DOMAIN frame_history THEN frame_history[room] ELSE EmptyHistory

ArmedBefore(room) ==
    IF room \in DOMAIN alert_sent THEN alert_sent[room] ELSE NoAlertSent

SpecStep(room) ==
    LET wh == SpecPush(WindowBefore(room).humans,
                       call_args'.human_count >= 1, 4)
        wp == SpecPush(WindowBefore(room).phones,
                       call_args'.phone_count >= 1, 2)
    IN  /\ frame_history'[room] = [humans |-> wh, phones |-> wp]
        /\ last_call'.new_human_malpractice =
               (SpecPersistent(wh, 4) /\ ~ArmedBefore(room).human_alert_sent)
        /\ last_call'.new_phone_malpractice =
               (SpecPersistent(wp, 2) /\ ~ArmedBefore(room).phone_alert_sent)
        /\ alert_sent'[room] = [human_alert_sent |-> SpecPersistent(wh, 4),
                                phone_alert_sent |-> SpecPersistent(wp, 2)]

\* C4: every call is, for each condition, a step of the spec's transition
\* function: b = (count >= 1) is pushed and the oldest entry evicted if over
\* capacity; persistent = window full and all true; the returned flag is
\* persistent and not armed before the call; armed after the call = persistent.
C4_TransitionFunction ==
    [][\A room \in Rooms : last_call'.room = room => SpecStep(room)]_vars

\* a call with two humans detected kept the armed flag of a persistent window
C4_Witness ==
    /\ last_call.room = "A"
    /\ call_args.human_count = 2
    /\ Len(outcomes["A"]) = 5
    /\ alert_sent["A"].human_alert_sent
    /\ ~last_call.new_human_malpractice

\* C5: between updates, for every room: human_alert_sent only with a human
\* window of exactly 4 entries, all true; phone_alert_sent only with a phone
\* window of exactly 2 entries, all true.
C5_ArmedOnlyWhilePersistent ==
    \A room \in DOMAIN alert_sent :
        /\ alert_sent[room].human_alert_sent =>
               /\ Len(frame_history[room].humans) = 4
               /\ \A i \in 1..4 : frame_history[room].humans[i]
        /\ alert_sent[room].phone_alert_sent =>
               /\ Len(frame_history[room].phones) = 2
               /\ \A i \in 1..2 : frame_history[room].phones[i]

\* both flags of a room are set, after more frames than either window holds
C5_Witness ==
    /\ "B" \in DOMAIN alert_sent
    /\ alert_sent["B"].human_alert_sent
    /\ alert_sent["B"].phone_alert_sent
    /\ streak["B"].human = 5

Min(a, b) == IF a < b THEN a ELSE b

\* the last Min(n, length) entries of column c of a log of n outcome pairs
MostRecent(log, c, length) ==
    LET n == Len(log)
        k == Min(n, length)
    IN  [i \in 1..k |-> log[n - k + i][c]]

\* C6: after every call, for every room the human window has at most 4
\* entries and the phone window at most 2, and each window is the most
\* recent outcomes of the room in arrival order: the last min(n, length).
C6_WindowIsMostRecent ==
    \A room \in Rooms :
        IF outcomes[room] = <<>>
        THEN room \notin DOMAIN frame_history
        ELSE /\ room \in DOMAIN frame_history
             /\ Len(frame_history[room].humans) <= 4
             /\ Len(frame_history[room].phones) <= 2
             /\ frame_history[room].humans = MostRecent(outcomes[room], 1, 4)
             /\ frame_history[room].phones = MostRecent(outcomes[room], 2, 2)

\* the 5th frame of a room evicted the true outcomes of its first frame
C6_Witness ==
    /\ Len(outcomes["A"]) = 5
    /\ outcomes["A"][1] = <<TRUE, TRUE>>
    /\ frame_history["A"].humans = <<FALSE, TRUE, FALSE, TRUE>>
    /\ frame_history["A"].phones = <<FALSE, TRUE>>

\* the alert lists the engine returns for a log of outcomes fed to a room
\* alone, from no history
RECURSIVE SoloAlerts(_, _, _, _)
SoloAlerts(room, log, fh, sent) ==
    IF log = <<>>
    THEN <<>>
    ELSE LET a == analyze_malpractice(fh, sent, room,
                                      IF log[1][1] THEN 1 ELSE 0,
                                      IF log[1][2] THEN 1 ELSE 0)
         IN  <<a.alerts>> \o SoloAlerts(room, Tail(log), a.frame_history,
                                         a.alert_sent)

EntryUnchanged(room) ==
    /\ (room \in DOMAIN frame_history') = (room \in DOMAIN frame_history)
    /\ (room \in DOMAIN alert_sent') = (room \in DOMAIN alert_sent)
    /\ room \in DOMAIN frame_history => frame_history'[room] = frame_history[room]
    /\ room \in DOMAIN alert_sent => alert_sent'[room] = alert_sent[room]

\* C7: rooms are isolated: a call for one room leaves the windows and armed
\* flags of every other room unchanged, and the alerts returned for a room's
\* outcomes are those the room gets when fed the same outcomes alone,
\* whatever was interleaved for the other rooms.
C7_RoomsIsolated ==
    [][\A room \in Rooms :
          last_call'.room = room =>
              /\ \A other \in Rooms \ {room} : EntryUnchanged(other)
              /\ alerts_log'[room] =
                     SoloAlerts(room, outcomes'[room], <<>>, <<>>)]_vars

\* room A returned a phone alert on its 2nd frame with frames of room B
\* before, between and after its two frames
C7_Witness ==
    /\ last_call.room = "B"
    /\ Len(outcomes["B"]) = 3
    /\ Len(alerts_log["A"]) = 2
    /\ alerts_log["A"][2] = <<PhoneAlert>>
    /\ alert_sent["A"].phone_alert_sent
    /\ outcomes["B"][2] = <<TRUE, FALSE>>

(***************************************************************************)
(* Properties of the detect-humans service.                                *)
(***************************************************************************)
\* request id got its response in this step
Completes(id) == inflight[id] # NoReq /\ inflight'[id] = NoReq

\* C8: requests of one room in flight at once are handled one after the
\* other, each update as one step: a request never returns a new alert for a
\* condition when, while it was in flight, another request of its room
\* returned that alert and no false outcome of the condition came since.
C8_ConcurrentFramesAlertOnce ==
    [][\A id \in ReqIds :
          (Completes(id) /\ response'.status = 200) =>
              /\ last_call'.new_human_malpractice => ~overlap[id].human
              /\ last_call'.new_phone_malpractice => ~overlap[id].phone
              /\ last_call'.room = inflight[id]]_vars

\* two requests of room A were in flight at once; one returned the human
\* alert of the run, then the other completed with a 5th true and no alert
C8_Witness ==
    \E id \in ReqIds :
        /\ inflight[id] = NoReq
        /\ overlap[id].human
        /\ response.status = 200
        /\ response.room = "A"
        /\ response.alerts = <<>>
        /\ streak["A"].human = 5

\* C9: a rejected detect-humans request (model not loaded, invalid base64,
\* undecodable image, preprocessing, inference or postprocessing failure)
\* leaves the debounce state of every room unchanged, the room it names
\* included.
C9_RejectedLeavesState ==
    [][(response'.status \notin {0, 200}) =>
          /\ frame_history' = frame_history
          /\ alert_sent' = alert_sent]_vars

\* a request for a room whose human alert is armed was rejected
C9_Witness ==
    /\ response.status = 500
    /\ response.room \in DOMAIN alert_sent
    /\ alert_sent[response.room].human_alert_sent
    /\ Len(frame_history[response.room].phones) = 2

\* C10: analyze_malpractice returns zero, one or two alerts: one per
\* condition update_detection_history reported as newly persistent, human
\* first, then device, and no other; malpractice_detected iff the list is
\* not empty.
C10_AlertsPerNewCondition ==
    Called =>
        /\ last_call.alerts =
               (IF last_call.new_human_malpractice THEN <<HumanAlert>> ELSE <<>>)
               \o (IF last_call.new_phone_malpractice THEN <<PhoneAlert>> ELSE <<>>)
        /\ last_call.malpractice_detected = (last_call.alerts # <<>>)

\* one frame made both conditions newly persistent: two alerts
C10_Witness ==
    /\ Called
    /\ last_call.alerts = <<HumanAlert, PhoneAlert>>
    /\ last_call.malpractice_detected

(***************************************************************************)
(* Claims about the overlay detector.                                      *)
(***************************************************************************)
\* the last request was answered with the result detect_overlay returned
Answered == overlay_response.status = 200

TheResult == overlay_response.result

TheDetails == overlay_response.result.analysis_details

\* the last result is the analysis of an image
Analysed200 == Answered /\ TheDetails.mode = "analysis"

\* C11: every result detect_overlay returns (analysis, error fallback, demo
\* paths, after any earlier calls) has a confidence between 0 and 1.
C11_ConfidenceInUnitInterval ==
    Answered => TheResult.confidence >= 0 /\ TheResult.confidence <= Unit

\* an analysis whose weighted sum is above 1 was answered with confidence 1
C11_Witness ==
    /\ Analysed200
    /\ WeightedSum(TheDetails.color_score, TheDetails.text_score,
                   TheDetails.ui_score, TheDetails.video_score) > Unit
    /\ TheResult.confidence = Unit

\* the threshold the detector compares with
EffectiveThreshold == get_effective_threshold(calibrated_threshold)

\* C12: for every result detect_overlay returns, after any earlier calls and
\* for every effective threshold in [0, 1], has_overlay is true exactly when
\* the confidence is above the effective threshold.
C12_OverlayIffAboveThreshold ==
    Answered =>
        (TheResult.has_overlay <=> TheResult.confidence > EffectiveThreshold)

\* C13: when the confidence of an analysed frame is above the effective
\* threshold the category follows the strict priority: scenario above 0.5
\* gives cheat_tool_overlay, else text above 0.6 gives text_solution_overlay,
\* else structural above 0.5 gives popup_overlay, else suspicious_overlay.
C13_CategoryByPriority ==
    LET scenario == 2 * TheDetails.video_score > 15
        text == TheDetails.text_score > 6
        structural == TheDetails.ui_score > 5
        type == TheResult.overlay_type
    IN  Analysed200 /\ TheResult.confidence > EffectiveThreshold =>
            /\ scenario => type = "cheat_tool_overlay"
            /\ ~scenario /\ text => type = "text_solution_overlay"
            /\ ~scenario /\ ~text /\ structural => type = "popup_overlay"
            /\ ~scenario /\ ~text /\ ~structural
                   => type = "suspicious_overlay"

\* scenario 0.6 with text 0.9, above the threshold: cheat_tool_overlay
C13_Witness ==
    /\ Analysed200
    /\ TheResult.confidence > EffectiveThreshold
    /\ TheDetails.video_score = 9
    /\ TheDetails.text_score = 9
    /\ TheResult.overlay_type = "cheat_tool_overlay"

Categories ==
    {"cheat_tool_overlay", "text_solution_overlay", "popup_overlay",
     "suspicious_overlay"}

\* C14: overlay_type is null exactly when has_overlay is false, and is one
\* of the four categories otherwise.
C14_TypeNullIffNoOverlay ==
    Answered =>
        /\ TheResult.overlay_type = "None" <=> ~TheResult.has_overlay
        /\ TheResult.has_overlay => TheResult.overlay_type \in Categories

Clip01(x) == IF x < 0 THEN 0 ELSE IF x > Unit THEN Unit ELSE x

\* 0.30*color + 0.25*text + 0.20*structural + 0.25*scenario of sub-scores
\* given in tenths (scenario in fifteenths), in six-hundredths
SpecFusion(color, text, structural, scenario) ==
    Clip01((30 * Unit * color) \div 1000 + (25 * Unit * text) \div 1000
           + (20 * Unit * structural) \div 1000
           + (25 * Unit * scenario) \div 1500)

\* C15: for an analysed frame whose four sub-scores are in [0, 1] the
\* confidence is 0.30*color + 0.25*text + 0.20*structural + 0.25*scenario
\* clipped to [0, 1].
C15_FusionIsWeightedSum ==
    Analysed200 /\ TheDetails.color_score <= 10 =>
        TheResult.confidence =
            SpecFusion(TheDetails.color_score, TheDetails.text_score,
                       TheDetails.ui_score, TheDetails.video_score)

\* colour 1.0, text 0.9, structural 0.7, scenario 0.6 fused to 0.815
C15_Witness ==
    /\ Analysed200
    /\ TheDetails.color_score = 10
    /\ TheDetails.text_score = 9
    /\ TheDetails.ui_score = 7
    /\ TheDetails.video_score = 9
    /\ TheResult.confidence = 489

\* the calibration file exists, can be read and holds a threshold
HoldsThreshold(file) ==
    file.exists /\ file.readable /\ file.threshold # None

\* C16: the effective threshold is the one stored in the calibration file
\* when the file exists, is readable and holds a threshold (0.0 included);
\* otherwise construction still succeeds and the effective threshold is the
\* configured default.
C16_ThresholdFromCalibrationFile ==
    session =>
        /\ overlay_detector
        /\ EffectiveThreshold =
               IF HoldsThreshold(calibration_file)
               THEN calibration_file.threshold[1]
               ELSE detection_threshold

\* a file holding 0.0: a frame of confidence 0.3 is reported as an overlay
C16_Witness ==
    /\ calibration_file.threshold = <<0>>
    /\ EffectiveThreshold = 0
    /\ Analysed200
    /\ TheResult.confidence = 180
    /\ TheResult.has_overlay

\* this step is a call of detect_overlay with a payload that is not a demo
\* string, made when no alert of the demo sequence is due
AnalysingStep ==
    /\ clock' = clock
    /\ overlay_detector
    /\ overlay_response'.frame.kind \in {"image", "invalid_base64", "not_image"}
    /\ ~check_demo_sequence(demo_sequence_active, demo_alerts_sent,
                            last_demo_time, clock).alert

\* C17: detect_overlay never raises: a failure while decoding,
\* preprocessing, extracting or fusing yields a result with has_overlay
\* false, confidence 0, no overlay_type, no regions and an 'error' entry in
\* analysis_details.
C17_FailureGivesFallback ==
    [][AnalysingStep /\ Raises(overlay_response'.frame) =>
          /\ overlay_response'.status = 200
          /\ ~overlay_response'.result.has_overlay
          /\ overlay_response'.result.confidence = 0
          /\ overlay_response'.result.overlay_type = "None"
          /\ overlay_response'.result.suspicious_regions = 0
          /\ overlay_response'.result.analysis_details.mode = "error"
          /\ overlay_response'.result.analysis_details.error # ""]_vars

\* the text extractor raised and the fallback was returned
C17_Witness ==
    /\ Answered
    /\ overlay_response.frame.fail = "text"
    /\ TheDetails.mode = "error"
    /\ TheDetails.error = "text"

\* the sub-score an extractor contributes when it is the one that failed
Contribution(failed, extractor, score) ==
    IF failed = extractor THEN 0 ELSE score

\* C18: when exactly one of the four extractors fails on a decodable frame,
\* only its sub-score is forced to 0; the other three still contribute to
\* the confidence and the fusion is not aborted.
C18_OneExtractorFailureIsLocal ==
    [][LET frame == overlay_response'.frame
           failed == frame.fail
       IN  AnalysingStep /\ frame.kind = "image" /\ failed \in Extractors =>
              /\ overlay_response'.status = 200
              /\ overlay_response'.result.confidence =
                     SpecFusion(
                         Contribution(failed, "color", color_score(frame)),
                         Contribution(failed, "text", text_score(frame)),
                         Contribution(failed, "ui", ui_score(frame)),
                         Contribution(failed, "video", video_score(frame)))
      ]_vars

\* C19: a request whose payload cannot be decoded is rejected with an error
\* response and is not answered with a detection result; every request with
\* a decodable frame gets a well-formed result.
C19_UndecodableIsRejected ==
    overlay_detector =>
        /\ overlay_response.frame \in Undecodable =>
               overlay_response.status # 200
        /\ overlay_response.frame \in Images => overlay_response.status = 200

\* C20: two calls of detect_overlay with the same frame and unchanged
\* calibration return the same result (has_overlay, confidence,
\* overlay_type, regions, diagnostics, timestamp), whatever was called
\* before them; stated for two calls with no other call between them.
C20_SameFrameSameResult ==
    [][/\ overlay_response.status = 200
       /\ overlay_response'.status = 200
       /\ overlay_response'.frame = overlay_response.frame
       => overlay_response'.result = overlay_response.result]_vars

\* C21: the per-frame pipeline is stateless: a detect_overlay call on a
\* frame leaves demo_sequence_active, demo_alerts_sent, last_demo_time and
\* calibrated_threshold unchanged, and its result does not depend on earlier
\* requests (it is the result a detector that served none would return).
C21_DetectOverlayIsStateless ==
    [][clock' = clock /\ overlay_detector
          /\ overlay_response'.frame.kind = "image" =>
          /\ demo_sequence_active' = demo_sequence_active
          /\ demo_alerts_sent' = demo_alerts_sent
          /\ last_demo_time' = last_demo_time
          /\ calibrated_threshold' = calibrated_threshold
          /\ overlay_response'.result =
                 detect_overlay(calibrated_threshold, FALSE, 0, 0,
                                overlay_response'.frame, clock).result]_vars

\* C26: the colour sub-score fed into the fusion is the region count over 10
\* clipped to 1: it is in [0, 1] for every count, and a count above 10
\* contributes at most 0.30 to the weighted sum.
C26_ColourScoreClipped ==
    Analysed200 =>
        /\ TheDetails.color_score <= 10
        /\ TheResult.confidence =
               SpecFusion(Min2(overlay_response.frame.color_regions, 10),
                          TheDetails.text_score, TheDetails.ui_score,
                          TheDetails.video_score)

(***************************************************************************)
(* Claims about the calibrator.                                            *)
(***************************************************************************)
TheOutcome == calibration_outcome

NormalConfidences(o) == Confidences(o.normal_samples)

CheatConfidences(o) == Confidences(o.cheat_samples)

BothSets(o) == o.normal_samples # <<>> /\ o.cheat_samples # <<>>

Separable(o) ==
    BothSets(o) /\ SetMax(NormalConfidences(o)) < SetMin(CheatConfidences(o))

\* C22: for non-empty normal and cheat samples with max(normal) < min(cheat)
\* analyze_samples returns the midpoint (max_normal + min_cheat) / 2 and
\* calibrate_from_files persists a profile with that threshold and both
\* sample counts.
C22_SeparableCalibrationSucceeds ==
    TheOutcome.called /\ Separable(TheOutcome) =>
        /\ ~TheOutcome.raised
        /\ TheOutcome.value =
               <<(SetMax(NormalConfidences(TheOutcome))
                  + SetMin(CheatConfidences(TheOutcome))) \div 2>>
        /\ calibration_file.exists
        /\ calibration_file.threshold = TheOutcome.value
        /\ Len(calibration_file.normal_samples)
               = Len(TheOutcome.normal_samples)
        /\ Len(calibration_file.cheat_samples)
               = Len(TheOutcome.cheat_samples)

\* C23: whenever max(normal) >= min(cheat), calibrate_from_files reports
\* failure to its caller by returning no threshold, writes no calibration
\* file and leaves a previously persisted profile unchanged.
C23_OverlapFailsCleanly ==
    [][calibration_outcome'.called /\ BothSets(calibration_outcome')
          /\ ~Separable(calibration_outcome') =>
          /\ ~calibration_outcome'.raised
          /\ calibration_outcome'.value = None
          /\ calibration_file' = calibration_file]_vars

\* C24: if the normal or the cheat sample set is empty, analyze_samples
\* computes no threshold and returns none, and no calibration file is
\* written.
C24_EmptySetFailsFast ==
    [][calibration_outcome'.called /\ ~BothSets(calibration_outcome') =>
          /\ ~calibration_outcome'.raised
          /\ calibration_outcome'.value = None
          /\ calibration_file' = calibration_file]_vars

\* cheat samples but no normal sample: nothing returned, nothing written
C24_Witness ==
    /\ TheOutcome.called
    /\ TheOutcome.normal_samples = <<>>
    /\ Len(TheOutcome.cheat_samples) = 2
    /\ ~TheOutcome.raised
    /\ TheOutcome.value = None
    /\ ~calibration_file.exists

\* a detector or a calibrator was constructed after the last save
AfterSave(object) == saved.threshold # None /\ object \in fresh

\* C25: after save_calibration(t) a newly constructed detector has
\* effective threshold exactly t, and load_calibration returns t together
\* with the same normal and cheat sample sequences that were saved.
C25_RoundTripIdentical ==
    /\ AfterSave("detector") => EffectiveThreshold = saved.threshold[1]
    /\ AfterSave("calibrator") =>
           /\ ~loaded.raised
           /\ loaded.value = saved.threshold
           /\ loaded.normal_samples = saved.normal_samples
           /\ loaded.cheat_samples = saved.cheat_samples

\* the loaded samples are the saved ones with every tuple read as a list
SameData(read, written) ==
    /\ Len(read) = Len(written)
    /\ \A i \in DOMAIN written :
           /\ read[i].confidence = written[i].confidence
           /\ read[i].analysis_details = written[i].analysis_details
           /\ read[i].suspicious_regions = written[i].suspicious_regions
           /\ read[i].containers =
                  (IF written[i].containers = "tuple" THEN "list"
                   ELSE written[i].containers)

\* C25, amended: after save_calibration(t) a newly constructed detector has
\* effective threshold exactly t, and load_calibration returns t together
\* with sample sequences of the same lengths holding the same confidences,
\* diagnostics and region counts, the tuples of the diagnostics read back
\* as lists.
C25_RoundTripUpToLists ==
    /\ AfterSave("detector") => EffectiveThreshold = saved.threshold[1]
    /\ AfterSave("calibrator") =>
           /\ ~loaded.raised
           /\ loaded.value = saved.threshold
           /\ SameData(loaded.normal_samples, saved.normal_samples)
           /\ SameData(loaded.cheat_samples, saved.cheat_samples)

\* threshold 0.0 saved with an analysed sample, then loaded by both
C25_Witness ==
    /\ AfterSave("detector")
    /\ AfterSave("calibrator")
    /\ saved.threshold = <<0>>
    /\ EffectiveThreshold = 0
    /\ Len(saved.normal_samples) = 1
    /\ saved.normal_samples[1].containers = "tuple"
    /\ loaded.normal_samples[1].containers = "list"
    /\ loaded.normal_samples[1].confidence = 180

\* the fallback rectangle of the last call
Fallback == region_call.called /\ region_call.screen_contour = None

RegionX == region_call.region[1]
RegionY == region_call.region[2]
RegionW == region_call.region[3]
RegionH == region_call.region[4]

\* centred in the frame and inside it
CentredInside ==
    /\ RegionX >= 0 /\ RegionY >= 0 /\ RegionW > 0 /\ RegionH > 0
    /\ RegionX + RegionW + RegionX = region_call.w
    /\ RegionY + RegionH + RegionY = region_call.h

\* C27: when no screen contour qualifies, detect_screen_region returns a
\* centred rectangle inside the frame whose area is 80% of the frame's
\* area, for every frame width and height.
C27_FallbackIsEightyPercentOfArea ==
    Fallback =>
        /\ CentredInside
        /\ 10 * RegionW * RegionH = 8 * region_call.w * region_call.h

\* C27, amended: when no screen contour qualifies, detect_screen_region
\* returns a centred rectangle inside the frame whose width and height are
\* 80% of the frame's, rounded up by less than 2 pixels, so that its area is
\* at least 64% of the frame's area.
C27_FallbackIsEightyPercentOfSides ==
    Fallback =>
        /\ CentredInside
        /\ 10 * RegionW >= 8 * region_call.w
        /\ 10 * RegionW < 8 * region_call.w + 20
        /\ 10 * RegionH >= 8 * region_call.h
        /\ 10 * RegionH < 8 * region_call.h + 20
        /\ 100 * RegionW * RegionH >= 64 * region_call.w * region_call.h

\* an 800 x 600 frame: the rectangle is 640 x 480 at (80, 60)
C27_Witness ==
    /\ Fallback
    /\ region_call.w = 800
    /\ region_call.h = 600
    /\ region_call.region = <<80, 60, 640, 480>>

AnalysedSample(sample) ==
    /\ sample.analysis_details.mode = "analysis"
    /\ sample.analysis_details.error = ""

\* C28: every sample recorded by add_normal_sample or add_cheat_sample
\* carries the confidence of a frame analysed without error: a frame whose
\* decoding or analysis failed is never appended to the sample sets.
C28_SamplesFromAnalysedFrames ==
    /\ \A i \in DOMAIN normal_samples : AnalysedSample(normal_samples[i])
    /\ \A i \in DOMAIN cheat_samples : AnalysedSample(cheat_samples[i])

\* C29: demo_alerts_sent is always between 0 and 4; after one trigger at
\* most 4 results of type 'overlay_detected' are returned in total, by
\* 'demo_check_sequence' and real-frame calls together, until the next
\* trigger; once 4 were returned 'demo_check_sequence' gets a non-overlay
\* result.
C29_DemoSequenceBound ==
    /\ [](demo_alerts_sent >= 0 /\ demo_alerts_sent <= 4
            /\ overlay_alerts <= 4)
    /\ [][overlay_alerts = 4 /\ overlay_detector /\ clock' = clock
            /\ overlay_response'.frame.kind = "demo_check_sequence" =>
            ~overlay_response'.result.has_overlay]_vars

\* four alerts were returned and 'demo_check_sequence' got no overlay
C29_Witness ==
    /\ overlay_alerts = 4
    /\ demo_alerts_sent = 4
    /\ overlay_response.frame.kind = "demo_check_sequence"
    /\ overlay_response.status = 200
    /\ ~overlay_response.result.has_overlay
    /\ overlay_response.result.analysis_details.mode = "sequence_complete"

\* C30: a detect-humans request whose data is not valid base64 or does not
\* decode to an image is answered 400, and 500 is returned only for
\* preprocessing, inference or postprocessing failures.
C30_DecodeFailureIs400 ==
    /\ request_frame \in {"invalid_base64", "undecodable"} /\ session =>
           response.status = 400
    /\ response.status = 500 =>
           request_frame \in {"preprocess_error", "inference_error",
                              "postprocess_error"}
====
